---- MODULE Spec2Model ----
(***************************************************************************)
(* Model of types/queries.go: the query dispatcher RustQuery, the          *)
(* two-level result envelope (QuerierResult / QueryResult) with its custom *)
(* serializer, and the RawRangeEntry wire codec.                           *)
(*                                                                         *)
(* JSON text is modelled at the level of its syntax tree: a document is a  *)
(* record [t, s, m] with t the kind of value, s the characters of a string *)
(* (ASCII codes) and m the members of an object or the elements of an      *)
(* array, in textual order.  Byte slices are [isNil, data]; encoding/json  *)
(* writes them as base64 strings, which is modelled digit by digit.        *)
(***************************************************************************)
EXTENDS Integers, Sequences, FiniteSets, TLC

\* ------------------------------------------------------------------ bounds
MaxLen == 2        \* longest byte slice / message drawn as an input
MaxMembers == 2    \* most members of a request object drawn as an input
MaxElems == 3      \* longest JSON array handed to RawRangeEntry.UnmarshalJSON
MaxGas == 2        \* cap of the querier's lifetime gas counter
MaxGasLimit == 1   \* largest gas limit a caller passes
MaxLimit == 2      \* largest page limit of a range scan

\* ------------------------------------------------------- byte slices, text
ByteVals == {0, 77, 255}

RECURSIVE SeqsUpTo(_, _)
SeqsUpTo(S, n) ==
    IF n = 0 THEN {<<>>}
    ELSE LET shorter == SeqsUpTo(S, n - 1)
         IN  shorter \cup {Append(q, x) : q \in {r \in shorter : Len(r) = n - 1}, x \in S}

\* A Go []byte: nil and the empty non-nil slice differ.
NilBytes == [isNil |-> TRUE, data |-> <<>>]
Bytes(d) == [isNil |-> FALSE, data |-> d]
ByteSlices == {NilBytes} \cup {Bytes(d) : d \in SeqsUpTo(ByteVals, MaxLen)}

\* encoding/base64 StdEncoding, as encoding/json applies it to []byte.
B64Char(i) ==
    IF i < 26 THEN 65 + i
    ELSE IF i < 52 THEN 97 + (i - 26)
    ELSE IF i < 62 THEN 48 + (i - 52)
    ELSE IF i = 62 THEN 43
    ELSE 47
B64Pad == 61
B64Index(c) ==
    IF c >= 65 /\ c <= 90 THEN c - 65
    ELSE IF c >= 97 /\ c <= 122 THEN 26 + (c - 97)
    ELSE IF c >= 48 /\ c <= 57 THEN 52 + (c - 48)
    ELSE IF c = 43 THEN 62
    ELSE IF c = 47 THEN 63
    ELSE -1

RECURSIVE Base64Encode(_)
Base64Encode(d) ==
    IF Len(d) = 0 THEN <<>>
    ELSE IF Len(d) = 1 THEN
        <<B64Char(d[1] \div 4), B64Char((d[1] % 4) * 16), B64Pad, B64Pad>>
    ELSE IF Len(d) = 2 THEN
        <<B64Char(d[1] \div 4),
          B64Char((d[1] % 4) * 16 + d[2] \div 16),
          B64Char((d[2] % 16) * 4),
          B64Pad>>
    ELSE
        <<B64Char(d[1] \div 4),
          B64Char((d[1] % 4) * 16 + d[2] \div 16),
          B64Char((d[2] % 16) * 4 + d[3] \div 64),
          B64Char(d[3] % 64)>> \o Base64Encode(SubSeq(d, 4, Len(d)))

\* Decoding answers [err, data]; padding is required and only ends the text.
RECURSIVE Base64Decode(_)
Base64Decode(s) ==
    IF Len(s) = 0 THEN [err |-> FALSE, data |-> <<>>]
    ELSE IF Len(s) < 4 THEN [err |-> TRUE, data |-> <<>>]
    ELSE
        LET a == B64Index(s[1])
            b == B64Index(s[2])
            c == B64Index(s[3])
            e == B64Index(s[4])
            last == Len(s) = 4
        IN  IF a < 0 \/ b < 0 THEN [err |-> TRUE, data |-> <<>>]
            ELSE IF s[3] = B64Pad THEN
                IF last /\ s[4] = B64Pad
                THEN [err |-> FALSE, data |-> <<a * 4 + b \div 16>>]
                ELSE [err |-> TRUE, data |-> <<>>]
            ELSE IF c < 0 THEN [err |-> TRUE, data |-> <<>>]
            ELSE IF s[4] = B64Pad THEN
                IF last
                THEN [err |-> FALSE,
                      data |-> <<a * 4 + b \div 16, (b % 16) * 16 + c \div 4>>]
                ELSE [err |-> TRUE, data |-> <<>>]
            ELSE IF e < 0 THEN [err |-> TRUE, data |-> <<>>]
            ELSE
                LET rest == Base64Decode(SubSeq(s, 5, Len(s)))
                IN  IF rest.err THEN [err |-> TRUE, data |-> <<>>]
                    ELSE [err |-> FALSE,
                          data |-> <<a * 4 + b \div 16,
                                     (b % 16) * 16 + c \div 4,
                                     (c % 4) * 64 + e>> \o rest.data]

\* ------------------------------------------------------------ JSON values
JBad == [t |-> "bad", s |-> <<>>, m |-> <<>>]        \* text that is not JSON
JNull == [t |-> "null", s |-> <<>>, m |-> <<>>]
JNum == [t |-> "num", s |-> <<>>, m |-> <<>>]
JStr(c) == [t |-> "str", s |-> c, m |-> <<>>]
JObj(mem) == [t |-> "obj", s |-> <<>>, m |-> mem]
JArr(el) == [t |-> "arr", s |-> <<>>, m |-> el]
Member(key, val) == [k |-> key, v |-> val]
Elem(val) == [k |-> "", v |-> val]

\* The member of object o under key, or JBad when o has none (last one wins).
RECURSIVE Lookup(_, _)
Lookup(mem, key) ==
    IF Len(mem) = 0 THEN JBad
    ELSE IF mem[Len(mem)].k = key THEN mem[Len(mem)].v
    ELSE Lookup(SubSeq(mem, 1, Len(mem) - 1), key)
HasKey(mem, key) == \E i \in 1..Len(mem) : mem[i].k = key

\* json.Marshal / json.Unmarshal of a []byte field.
MarshalBytes(b) == IF b.isNil THEN JNull ELSE JStr(Base64Encode(b.data))
UnmarshalBytes(j, old) ==
    IF j.t = "null" THEN [err |-> FALSE, val |-> NilBytes]
    ELSE IF j.t = "str" THEN
        LET d == Base64Decode(j.s)
        IN  IF d.err THEN [err |-> TRUE, val |-> old]
            ELSE [err |-> FALSE, val |-> Bytes(d.data)]
    ELSE [err |-> TRUE, val |-> old]

\* --------------------------------------------------------------- variables
VARIABLES
    \* RawRangeEntry codec
    ePhase,      \* "start", "wired" (a wire form is at hand), "done" (it was decoded)
    r,           \* the RawRangeEntry receiver of UnmarshalJSON
    rBefore,     \* r as it was when UnmarshalJSON was entered
    rerr,        \* whether the last UnmarshalJSON returned an error
    wire,        \* the JSON at hand
    wireFrom,    \* "none", "marshal" (made by MarshalJSON) or "foreign"
    sent,        \* the entry MarshalJSON was applied to
    \* result envelope codec
    cPhase,      \* "start", "built", "wired", "decoded", "qwired", "qdecoded"
    cResponse,   \* the response bytes given to ToQuerierResult
    cErr,        \* the error given to ToQuerierResult
    qr,          \* the QuerierResult at hand
    qrWire,      \* its JSON
    qrBack,      \* [err, val]: what decoding qrWire gave
    qres,        \* the QueryResult given to MarshalJSON
    qWire,       \* its JSON
    qBack,       \* [err, val]: what decoding qWire gave
    \* dispatcher
    phase,       \* "idle", "called" (RustQuery entered), "returned"
    binRequest,  \* the request bytes of the current dispatch
    gasLimit,    \* the gas limit of the current dispatch
    result,      \* the QuerierResult RustQuery returned
    calls,       \* the querier.Query invocations of the current dispatch
    gas,         \* what querier.GasConsumed() returns
    \* range scan
    sPhase,      \* "start", "asked", "answered"
    store,       \* the keys of the scanned contract's storage
    query,       \* the RawRangeQuery
    response     \* the RawRangeResponse

entryVars == <<ePhase, r, rBefore, rerr, wire, wireFrom, sent>>
codecVars == <<cPhase, cResponse, cErr, qr, qrWire, qrBack, qres, qWire, qBack>>
dispVars == <<phase, binRequest, gasLimit, result, calls, gas>>
scanVars == <<sPhase, store, query, response>>
vars == <<entryVars, codecVars, dispVars, scanVars>>

\* ------------------------------------------------- RawRangeEntry (408-430)
RawRangeEntry(key, value) == [Key |-> key, Value |-> value]
ZeroEntry == RawRangeEntry(NilBytes, NilBytes)
Entries == {RawRangeEntry(a, b) : a \in ByteSlices, b \in ByteSlices}

RawRangeEntry_MarshalJSON_Swapped(e) ==
    JArr(<<Elem(MarshalBytes(e.Value)), Elem(MarshalBytes(e.Key))>>)
\* json.Marshal([][]byte{r.Key, r.Value})
RawRangeEntry_MarshalJSON(e) ==
    JArr(<<Elem(MarshalBytes(e.Key)), Elem(MarshalBytes(e.Value))>>)

\* json.Unmarshal(data, &arr) for arr [][]byte, arr nil on entry: [err, arr].
UnmarshalByteSlices(data) ==
    IF data.t = "null" THEN [err |-> FALSE, arr |-> <<>>]
    ELSE IF data.t = "arr" THEN
        LET one(i) == UnmarshalBytes(data.m[i].v, NilBytes)
        IN  [err |-> \E i \in 1..Len(data.m) : one(i).err,
             arr |-> [i \in 1..Len(data.m) |-> one(i).val]]
    ELSE [err |-> TRUE, arr |-> <<>>]

RawRangeEntry_UnmarshalJSON(e, data) ==
    LET got == UnmarshalByteSlices(data)
    IN  IF got.err THEN [err |-> TRUE, r |-> e]
        ELSE IF Len(got.arr) # 2 THEN [err |-> TRUE, r |-> e]
        ELSE [err |-> FALSE, r |-> RawRangeEntry(got.arr[1], got.arr[2])]

\* Wire forms that MarshalJSON did not make: other JSON values, and arrays of
\* every length up to MaxElems over good, null, malformed and mistyped elements.
ForeignElems == {JNull, JNum, JStr(Base64Encode(<<77>>)), JStr(<<B64Pad>>)}
ForeignWires ==
    {JBad, JNull, JNum, JObj(<<>>), JStr(<<>>)}
        \cup {JArr([i \in 1..Len(q) |-> Elem(q[i])]) : q \in SeqsUpTo(ForeignElems, MaxElems)}

\* ------------------------------------------------- result envelope (10-99)
MsgChars == {101, 33}
Messages == SeqsUpTo(MsgChars, MaxLen)

\* QueryResult / queryResultImpl: Ok []byte, Err string.
QueryResult(ok, err) == [Ok |-> ok, Err |-> err]
ZeroQueryResult == QueryResult(NilBytes, <<>>)
QueryResults == {QueryResult(a, b) : a \in ByteSlices, b \in Messages}

\* json.Marshal(queryResultImpl(q)): both fields are omitempty.
MarshalQueryResultImpl(x) ==
    JObj((IF Len(x.Ok.data) > 0 THEN <<Member("ok", MarshalBytes(x.Ok))>> ELSE <<>>)
         \o (IF Len(x.Err) > 0 THEN <<Member("error", JStr(x.Err))>> ELSE <<>>))

QueryResult_MarshalJSON_Plain(x) == MarshalQueryResultImpl(x)
QueryResult_MarshalJSON(x) ==
    IF Len(x.Ok.data) = 0 /\ Len(x.Err) = 0
    THEN JObj(<<Member("ok", JStr(<<>>))>>)
    ELSE MarshalQueryResultImpl(x)

\* json.Unmarshal into a QueryResult: the field tags decide, member by member.
RECURSIVE UnmarshalQueryResultMembers(_, _, _)
UnmarshalQueryResultMembers(mem, i, acc) ==
    IF i > Len(mem) THEN acc
    ELSE
        LET key == mem[i].k
            j == mem[i].v
            next ==
                IF key = "ok" THEN
                    LET b == UnmarshalBytes(j, acc.val.Ok)
                    IN  [err |-> acc.err \/ b.err,
                         val |-> [acc.val EXCEPT !.Ok = b.val]]
                ELSE IF key = "error" THEN
                    IF j.t = "str" THEN [acc EXCEPT !.val.Err = j.s]
                    ELSE IF j.t = "null" THEN acc
                    ELSE [acc EXCEPT !.err = TRUE]
                ELSE acc
        IN  UnmarshalQueryResultMembers(mem, i + 1, next)

UnmarshalQueryResult(j, old) ==
    IF j.t = "null" THEN [err |-> FALSE, val |-> old]
    ELSE IF j.t = "obj"
    THEN UnmarshalQueryResultMembers(j.m, 1, [err |-> FALSE, val |-> old])
    ELSE [err |-> TRUE, val |-> old]

\* SystemError: one populated kind; InvalidRequest carries message and request.
NoRequest == [t |-> "none", s |-> <<>>, m |-> <<>>]
SystemError(kind, msg, request) == [kind |-> kind, msg |-> msg, request |-> request]
ZeroSystemError == SystemError("", "", NoRequest)

\* Go error values a responder returns: nil, a plain error, a SystemError.
NilErr == [kind |-> "nil", msg |-> <<>>, sys |-> ZeroSystemError]
PlainErr(msg) == [kind |-> "plain", msg |-> msg, sys |-> ZeroSystemError]
SysErr(sys) == [kind |-> "system", msg |-> <<>>, sys |-> sys]

\* Pointers.
NilQueryResult == [isNil |-> TRUE, v |-> ZeroQueryResult]
NilSystemError == [isNil |-> TRUE, v |-> ZeroSystemError]
Ptr(x) == [isNil |-> FALSE, v |-> x]

ToSystemError(err) ==
    IF err.kind = "system" THEN Ptr(err.sys) ELSE NilSystemError

QuerierResult(ok, err) == [Ok |-> ok, Err |-> err]

ToQuerierResult_NoSystemTier(bz, err) ==
    IF err.kind = "nil"
    THEN QuerierResult(Ptr(QueryResult(bz, <<>>)), NilSystemError)
    ELSE QuerierResult(Ptr(QueryResult(NilBytes, err.msg)), NilSystemError)
ToQuerierResult(bz, err) ==
    IF err.kind = "nil"
    THEN QuerierResult(Ptr(QueryResult(bz, <<>>)), NilSystemError)
    ELSE LET syserr == ToSystemError(err)
         IN  IF ~syserr.isNil
             THEN QuerierResult(NilQueryResult, syserr)
             ELSE QuerierResult(Ptr(QueryResult(NilBytes, err.msg)), NilSystemError)

\* The wire form of a SystemError: an object with the one populated kind.
MarshalSystemError(e) == JObj(<<Member(e.kind, JObj(<<Member("error", JStr(<<>>))>>))>>)
UnmarshalSystemError(j) ==
    IF j.t = "obj" /\ Len(j.m) = 1
    THEN [err |-> FALSE, val |-> SystemError(j.m[1].k, "", NoRequest)]
    ELSE [err |-> j.t # "obj", val |-> ZeroSystemError]

\* json.Marshal of a QuerierResult: both pointers are omitempty.
MarshalQuerierResult(x) ==
    JObj((IF ~x.Ok.isNil THEN <<Member("ok", QueryResult_MarshalJSON(x.Ok.v))>> ELSE <<>>)
         \o (IF ~x.Err.isNil THEN <<Member("error", MarshalSystemError(x.Err.v))>> ELSE <<>>))

RECURSIVE UnmarshalQuerierResultMembers(_, _, _)
UnmarshalQuerierResultMembers(mem, i, acc) ==
    IF i > Len(mem) THEN acc
    ELSE
        LET key == mem[i].k
            j == mem[i].v
            next ==
                IF key = "ok" THEN
                    IF j.t = "null" THEN [acc EXCEPT !.val.Ok = NilQueryResult]
                    ELSE LET inner == UnmarshalQueryResult(j, acc.val.Ok.v)
                         IN  [err |-> acc.err \/ inner.err,
                              val |-> [acc.val EXCEPT !.Ok = Ptr(inner.val)]]
                ELSE IF key = "error" THEN
                    IF j.t = "null" THEN [acc EXCEPT !.val.Err = NilSystemError]
                    ELSE LET inner == UnmarshalSystemError(j)
                         IN  [err |-> acc.err \/ inner.err,
                              val |-> [acc.val EXCEPT !.Err = Ptr(inner.val)]]
                ELSE acc
        IN  UnmarshalQuerierResultMembers(mem, i + 1, next)

ZeroQuerierResult == QuerierResult(NilQueryResult, NilSystemError)
UnmarshalQuerierResult(j) ==
    IF j.t = "null" THEN [err |-> FALSE, val |-> ZeroQuerierResult]
    ELSE IF j.t = "obj"
    THEN UnmarshalQuerierResultMembers(j.m, 1, [err |-> FALSE, val |-> ZeroQuerierResult])
    ELSE [err |-> TRUE, val |-> ZeroQuerierResult]

\* What a responder may hand back as its error.
SystemErrors ==
    {SystemError("unknown", "", NoRequest),
     SystemError("no_such_contract", "", NoRequest),
     SystemError("invalid_request", "responder", JNum)}
GoErrs == {NilErr} \cup {PlainErr(msg) : msg \in Messages} \cup {SysErr(e) : e \in SystemErrors}

\* ---------------------------------------------- query taxonomy (101-399)
\* Go values a decoded request is made of.
GNil == [t |-> "nil", s |-> <<>>, m |-> <<>>]
GString(c) == [t |-> "string", s |-> c, m |-> <<>>]
GBytes(b) == [t |-> IF b.isNil THEN "nilbytes" ELSE "bytes", s |-> b.data, m |-> <<>>]
GUint == [t |-> "uint", s |-> <<>>, m |-> <<>>]
GRaw(j) == [t |-> "raw", s |-> <<>>, m |-> <<Elem(j)>>]
GStruct(fields) == [t |-> "struct", s |-> <<>>, m |-> fields]

\* A struct field: its JSON key, its kind and, for a pointer, the struct type.
F(key, kind, ty) == [k |-> key, kind |-> kind, ty |-> ty]
P(key, ty) == F(key, "ptr", ty)
S(key) == F(key, "string", "")
B(key) == F(key, "bytes", "")
U(key) == F(key, "uint", "")

Schema(ty) ==
    CASE ty = "QueryRequest" ->
            <<P("bank", "BankQuery"), F("custom", "raw", ""), P("ibc", "IBCQuery"),
              P("staking", "StakingQuery"), P("distribution", "DistributionQuery"),
              P("stargate", "StargateQuery"), P("grpc", "GrpcQuery"),
              P("wasm", "WasmQuery")>>
      [] ty = "BankQuery" ->
            <<P("supply", "SupplyQuery"), P("balance", "BalanceQuery"),
              P("all_balances", "AllBalancesQuery"),
              P("denom_metadata", "DenomMetadataQuery"),
              P("all_denom_metadata", "AllDenomMetadataQuery")>>
      [] ty = "SupplyQuery" -> <<S("denom")>>
      [] ty = "BalanceQuery" -> <<S("address"), S("denom")>>
      [] ty = "AllBalancesQuery" -> <<S("address")>>
      [] ty = "DenomMetadataQuery" -> <<S("denom")>>
      [] ty = "AllDenomMetadataQuery" -> <<P("pagination", "PageRequest")>>
      [] ty = "IBCQuery" ->
            <<P("port_id", "PortIDQuery"), P("list_channels", "ListChannelsQuery"),
              P("channel", "ChannelQuery")>>
      [] ty = "ListChannelsQuery" -> <<S("port_id")>>
      [] ty = "ChannelQuery" -> <<S("port_id"), S("channel_id")>>
      [] ty = "StakingQuery" ->
            <<P("all_validators", "AllValidatorsQuery"), P("validator", "ValidatorQuery"),
              P("all_delegations", "AllDelegationsQuery"),
              P("delegation", "DelegationQuery"), P("bonded_denom", "struct{}")>>
      [] ty = "ValidatorQuery" -> <<S("address")>>
      [] ty = "AllDelegationsQuery" -> <<S("delegator")>>
      [] ty = "DelegationQuery" -> <<S("delegator"), S("validator")>>
      [] ty = "DistributionQuery" ->
            <<P("delegator_withdraw_address", "DelegatorWithdrawAddressQuery"),
              P("delegation_rewards", "DelegationRewardsQuery"),
              P("delegation_total_rewards", "DelegationTotalRewardsQuery"),
              P("delegator_validators", "DelegatorValidatorsQuery")>>
      [] ty = "DelegatorWithdrawAddressQuery" -> <<S("delegator_address")>>
      [] ty = "DelegationRewardsQuery" ->
            <<S("delegator_address"), S("validator_address")>>
      [] ty = "DelegationTotalRewardsQuery" -> <<S("delegator_address")>>
      [] ty = "DelegatorValidatorsQuery" -> <<S("delegator_address")>>
      [] ty = "StargateQuery" -> <<B("data"), S("path")>>
      [] ty = "GrpcQuery" -> <<B("data"), S("path")>>
      [] ty = "WasmQuery" ->
            <<P("smart", "SmartQuery"), P("raw", "RawQuery"),
              P("contract_info", "ContractInfoQuery"), P("code_info", "CodeInfoQuery"),
              P("raw_range", "RawRangeQuery")>>
      [] ty = "SmartQuery" -> <<S("contract_addr"), B("msg")>>
      [] ty = "RawQuery" -> <<S("contract_addr"), B("key")>>
      [] ty = "ContractInfoQuery" -> <<S("contract_addr")>>
      [] ty = "CodeInfoQuery" -> <<U("code_id")>>
      [] ty = "RawRangeQuery" ->
            <<S("contract_addr"), B("start"), B("end"), U("limit"), S("order")>>
      [] OTHER -> <<>>       \* PortIDQuery, AllValidatorsQuery, struct{}, PageRequest

\* The types that are one-of-N unions of pointers.
UnionTypes ==
    {"QueryRequest", "BankQuery", "IBCQuery", "StakingQuery", "DistributionQuery",
     "WasmQuery"}

ZeroField(f) ==
    CASE f.kind = "string" -> GString(<<>>)
      [] f.kind = "bytes" -> GBytes(NilBytes)
      [] f.kind = "uint" -> GUint
      [] OTHER -> GNil
ZeroStruct(ty) ==
    LET fields == Schema(ty)
    IN  GStruct([n \in 1..Len(fields) |-> Member(fields[n].k, ZeroField(fields[n]))])

\* encoding/json decoding a value into a struct field: [err, val].  A value of
\* the wrong kind is an error that leaves the field as it was; null resets a
\* pointer and is skipped for the other kinds; an unknown key is skipped.
\* Keys are matched exactly: the inputs drawn below never differ from a field
\* name by letter case alone, which encoding/json would also accept.
RECURSIVE DecodeField(_, _, _)
RECURSIVE DecodeMembers(_, _, _, _)
DecodeField(f, j, old) ==
    CASE f.kind = "raw" -> [err |-> FALSE, val |-> GRaw(j)]
      [] f.kind = "string" ->
            IF j.t = "str" THEN [err |-> FALSE, val |-> GString(j.s)]
            ELSE [err |-> j.t # "null", val |-> old]
      [] f.kind = "bytes" ->
            LET b == UnmarshalBytes(j, NilBytes)
            IN  IF b.err THEN [err |-> TRUE, val |-> old]
                ELSE [err |-> FALSE, val |-> GBytes(b.val)]
      [] f.kind = "uint" ->
            IF j.t = "num" THEN [err |-> FALSE, val |-> GUint]
            ELSE [err |-> j.t # "null", val |-> old]
      [] OTHER ->
            IF j.t = "null" THEN [err |-> FALSE, val |-> GNil]
            ELSE IF j.t = "obj" THEN
                DecodeMembers(f.ty, j.m, 1,
                    [err |-> FALSE,
                     val |-> IF old.t = "nil" THEN ZeroStruct(f.ty) ELSE old])
            ELSE [err |-> TRUE, val |-> old]
DecodeMembers(ty, mem, i, acc) ==
    IF i > Len(mem) THEN acc
    ELSE
        LET fields == Schema(ty)
            hits == {n \in 1..Len(fields) : fields[n].k = mem[i].k}
        IN  IF hits = {} THEN DecodeMembers(ty, mem, i + 1, acc)
            ELSE
                LET n == CHOOSE x \in hits : TRUE
                    d == DecodeField(fields[n], mem[i].v, acc.val.m[n].v)
                IN  DecodeMembers(ty, mem, i + 1,
                        [err |-> acc.err \/ d.err,
                         val |-> [acc.val EXCEPT !.m[n].v = d.val]])

\* json.Unmarshal(binRequest, &request): [err, val], err "" for nil.  The text
\* is checked for syntax first; null leaves the zero request.
UnmarshalQueryRequest(bin) ==
    IF bin.t = "bad" THEN [err |-> "syntax", val |-> ZeroStruct("QueryRequest")]
    ELSE IF bin.t = "null" THEN [err |-> "", val |-> ZeroStruct("QueryRequest")]
    ELSE IF bin.t = "obj" THEN
        LET d == DecodeMembers("QueryRequest", bin.m, 1,
                     [err |-> FALSE, val |-> ZeroStruct("QueryRequest")])
        IN  [err |-> IF d.err THEN "type" ELSE "", val |-> d.val]
    ELSE [err |-> "type", val |-> ZeroStruct("QueryRequest")]

\* The populated branches of a union value.
PopulatedBranches(v) == {n \in 1..Len(v.m) : v.m[n].v.t # "nil"}

\* ------------------------------------------------------ dispatcher (30-72)
\* What querier.Query hands back when it is invoked, and the gas it consumed.
Reply(bz, err, used) == [bz |-> bz, err |-> err, used |-> used]
Invocation(request, limit, reply) == [request |-> request, gasLimit |-> limit, reply |-> reply]

RustQuery_NoShortCircuit(bin, limit, reply) ==
    LET dec == UnmarshalQueryRequest(bin)
    IN  [result |->
            IF dec.err # ""
            THEN QuerierResult(NilQueryResult,
                     Ptr(SystemError("invalid_request", dec.err, bin)))
            ELSE ToQuerierResult(reply.bz, reply.err),
         calls |-> <<Invocation(dec.val, limit, reply)>>]
RustQuery_Retry(bin, limit, reply) ==
    LET dec == UnmarshalQueryRequest(bin)
        once == <<Invocation(dec.val, limit, reply)>>
    IN  IF dec.err # ""
        THEN [result |-> QuerierResult(NilQueryResult,
                             Ptr(SystemError("invalid_request", dec.err, bin))),
              calls |-> <<>>]
        ELSE [result |-> ToQuerierResult(reply.bz, reply.err),
              calls |-> IF reply.err.kind = "nil" THEN once ELSE once \o once]
RustQuery_EchoesDecoded(bin, limit, reply) ==
    LET dec == UnmarshalQueryRequest(bin)
    IN  IF dec.err # ""
        THEN [result |-> QuerierResult(NilQueryResult,
                             Ptr(SystemError("invalid_request", dec.err,
                                     IF bin.t = "bad" THEN JBad ELSE bin))),
              calls |-> <<>>]
        ELSE [result |-> ToQuerierResult(reply.bz, reply.err),
              calls |-> <<Invocation(dec.val, limit, reply)>>]
\* RustQuery: [result, calls], calls the invocations of querier.Query it made.
RustQuery(bin, limit, reply) ==
    LET dec == UnmarshalQueryRequest(bin)
    IN  IF dec.err # ""
        THEN [result |-> QuerierResult(NilQueryResult,
                             Ptr(SystemError("invalid_request", dec.err, bin))),
              calls |-> <<>>]
        ELSE [result |-> ToQuerierResult(reply.bz, reply.err),
              calls |-> <<Invocation(dec.val, limit, reply)>>]

\* The querier's lifetime gas counter after the invocations of one dispatch.
RECURSIVE GasConsumed(_, _)
GasConsumed(before, invocations) ==
    IF Len(invocations) = 0 THEN before
    ELSE GasConsumed(before + invocations[1].reply.used,
                     SubSeq(invocations, 2, Len(invocations)))

\* Request texts: text that is no JSON, JSON that is no object, and objects of
\* up to MaxMembers members over known and unknown keys with well-formed,
\* empty, doubly populated, mistyped and null values.
BadText(c) == [t |-> "bad", s |-> c, m |-> <<>>]
BalanceJSON == JObj(<<Member("address", JStr(<<97>>)), Member("denom", JStr(<<117>>))>>)
RawRangeJSON ==
    JObj(<<Member("contract_addr", JStr(<<99>>)),
           Member("start", JStr(Base64Encode(<<77>>))),
           Member("limit", JNum), Member("order", JStr(<<97>>))>>)
BankJSON ==
    {JNull, JNum, JObj(<<>>),
     JObj(<<Member("balance", BalanceJSON)>>),
     JObj(<<Member("balance", BalanceJSON), Member("supply", JObj(<<>>))>>)}
TopMembers ==
    {Member("bank", v) : v \in BankJSON}
        \cup {Member("wasm", JObj(<<Member("raw_range", RawRangeJSON)>>)),
              Member("custom", JNum),
              Member("unknown_field", JNum)}
Requests ==
    {JBad, BadText(<<123>>), JNull, JNum, JStr(<<>>)}
        \cup {JObj(mem) : mem \in SeqsUpTo(TopMembers, MaxMembers)}

ReplyErrs ==
    {NilErr, PlainErr(<<>>), PlainErr(<<101>>),
     SysErr(SystemError("unknown", "", NoRequest)),
     SysErr(SystemError("invalid_request", "responder", JNum))}
Replies(limit) ==
    {Reply(b, e, u) : b \in {NilBytes, Bytes(<<77>>)}, e \in ReplyErrs, u \in 0..limit}

DispIdle ==
    /\ phase = "idle"
    /\ binRequest = NoRequest
    /\ gasLimit = 0
    /\ result = ZeroQuerierResult
    /\ calls = <<>>
    /\ gas = 0

\* ------------------------------------------------- range scan (384-406)
RawRangeQuery(start, end, limit, order) ==
    [Start |-> start, End |-> end, Limit |-> limit, Order |-> order]
RawRangeResponse(data, next) == [Data |-> data, NextKey |-> next]

\* Start and End are omitempty: a bound of length zero is not on the wire.
Present(b) == Len(b.data) > 0

RECURSIVE LexLess(_, _)
LexLess(a, b) ==
    IF Len(b) = 0 THEN FALSE
    ELSE IF Len(a) = 0 THEN TRUE
    ELSE IF a[1] # b[1] THEN a[1] < b[1]
    ELSE LexLess(Tail(a), Tail(b))

RECURSIVE Ascending(_)
Ascending(keys) ==
    IF keys = {} THEN <<>>
    ELSE LET least == CHOOSE k \in keys : \A o \in keys : o = k \/ LexLess(k, o)
         IN  <<least>> \o Ascending(keys \ {least})
Reverse(q) == [i \in 1..Len(q) |-> q[Len(q) + 1 - i]]

\* The responder's scan: the keys from Start (inclusive) to End (exclusive),
\* an absent bound being open, in the order asked for, cut at Limit, with the
\* first key left out as next_key.
Scan_DescendingSwapsBounds(keys, qu) ==
    LET lo == IF qu.Order = "descending" THEN qu.End ELSE qu.Start
        hi == IF qu.Order = "descending" THEN qu.Start ELSE qu.End
        within == {k \in keys :
                      /\ Present(lo) => ~LexLess(k, lo.data)
                      /\ Present(hi) => LexLess(k, hi.data)}
        ordered == IF qu.Order = "descending"
                   THEN Reverse(Ascending(within)) ELSE Ascending(within)
        n == IF Len(ordered) < qu.Limit THEN Len(ordered) ELSE qu.Limit
    IN  RawRangeResponse(
            [i \in 1..n |-> RawRangeEntry(Bytes(ordered[i]), Bytes(<<0>>))],
            IF Len(ordered) > n THEN Bytes(ordered[n + 1]) ELSE NilBytes)
Scan(keys, qu) ==
    LET within == {k \in keys :
                      /\ Present(qu.Start) => ~LexLess(k, qu.Start.data)
                      /\ Present(qu.End) => LexLess(k, qu.End.data)}
        ordered == IF qu.Order = "descending"
                   THEN Reverse(Ascending(within)) ELSE Ascending(within)
        n == IF Len(ordered) < qu.Limit THEN Len(ordered) ELSE qu.Limit
    IN  RawRangeResponse(
            [i \in 1..n |-> RawRangeEntry(Bytes(ordered[i]), Bytes(<<0>>))],
            IF Len(ordered) > n THEN Bytes(ordered[n + 1]) ELSE NilBytes)

ScanKeys == {<<1>>, <<1, 1>>, <<1, 2>>, <<2>>, <<2, 1>>}
ScanBounds == {NilBytes} \cup {Bytes(k) : k \in ScanKeys \cup {<<0>>, <<2, 2>>}}
Orders == {"ascending", "descending"}
ZeroRawRangeQuery == RawRangeQuery(NilBytes, NilBytes, 0, "ascending")

ScanIdle ==
    /\ sPhase = "start"
    /\ store = {}
    /\ query = ZeroRawRangeQuery
    /\ response = RawRangeResponse(<<>>, NilBytes)

CodecIdle ==
    /\ cPhase = "start"
    /\ cResponse = NilBytes
    /\ cErr = NilErr
    /\ qr = ZeroQuerierResult
    /\ qrWire = JBad
    /\ qrBack = [err |-> FALSE, val |-> ZeroQuerierResult]
    /\ qres = ZeroQueryResult
    /\ qWire = JBad
    /\ qBack = [err |-> FALSE, val |-> ZeroQueryResult]

EntryIdle ==
    /\ ePhase = "start"
    /\ r = ZeroEntry
    /\ rBefore = ZeroEntry
    /\ rerr = FALSE
    /\ wire = JBad
    /\ wireFrom = "none"
    /\ sent = ZeroEntry

CodecInit == CodecIdle /\ EntryIdle /\ DispIdle /\ ScanIdle

CodecConvert ==
    /\ cPhase = "start"
    /\ \E bz \in ByteSlices, err \in GoErrs :
        /\ cResponse' = bz
        /\ cErr' = err
        /\ qr' = ToQuerierResult(bz, err)
    /\ cPhase' = "built"
    /\ UNCHANGED <<qrWire, qrBack, qres, qWire, qBack>>
    /\ UNCHANGED <<entryVars, dispVars, scanVars>>

CodecMarshal ==
    /\ cPhase = "built"
    /\ qrWire' = MarshalQuerierResult(qr)
    /\ cPhase' = "wired"
    /\ UNCHANGED <<cResponse, cErr, qr, qrBack, qres, qWire, qBack>>
    /\ UNCHANGED <<entryVars, dispVars, scanVars>>

CodecUnmarshal ==
    /\ cPhase = "wired"
    /\ qrBack' = UnmarshalQuerierResult(qrWire)
    /\ cPhase' = "decoded"
    /\ UNCHANGED <<cResponse, cErr, qr, qrWire, qres, qWire, qBack>>
    /\ UNCHANGED <<entryVars, dispVars, scanVars>>

QueryResultMarshal ==
    /\ cPhase = "start"
    /\ \E x \in QueryResults :
        /\ qres' = x
        /\ qWire' = QueryResult_MarshalJSON(x)
    /\ cPhase' = "qwired"
    /\ UNCHANGED <<cResponse, cErr, qr, qrWire, qrBack, qBack>>
    /\ UNCHANGED <<entryVars, dispVars, scanVars>>

QueryResultUnmarshal ==
    /\ cPhase = "qwired"
    /\ qBack' = UnmarshalQueryResult(qWire, ZeroQueryResult)
    /\ cPhase' = "qdecoded"
    /\ UNCHANGED <<cResponse, cErr, qr, qrWire, qrBack, qres, qWire>>
    /\ UNCHANGED <<entryVars, dispVars, scanVars>>

CodecNext ==
    \/ CodecConvert
    \/ CodecMarshal
    \/ CodecUnmarshal
    \/ QueryResultMarshal
    \/ QueryResultUnmarshal
SpecCodec == CodecInit /\ [][CodecNext]_vars

Built == cPhase \in {"built", "wired", "decoded"}
Empty(x) == Len(x.Ok.data) = 0 /\ Len(x.Err) = 0
EmptySuccessWire == JObj(<<Member("ok", JStr(<<>>))>>)
Keys(j) == [i \in 1..Len(j.m) |-> j.m[i].k]

\* C3: ToQuerierResult populates exactly one outer branch and sorts every
\* outcome into one of three shapes: no error gives ok with the response
\* bytes as inner Ok and no inner Err; an error ToSystemError recognises gives
\* that SystemError as the outer error; any other error gives ok with its
\* message as inner Err and no inner Ok.  The inner QueryResult never has
\* both Ok and Err populated.
C3_ThreeShapes ==
    Built =>
        /\ qr.Ok.isNil # qr.Err.isNil
        /\ cErr.kind = "nil" =>
            /\ ~qr.Ok.isNil
            /\ qr.Ok.v.Ok = cResponse
            /\ qr.Ok.v.Err = <<>>
        /\ (cErr.kind # "nil" /\ ~ToSystemError(cErr).isNil) =>
            /\ qr.Ok.isNil
            /\ qr.Err = ToSystemError(cErr)
        /\ (cErr.kind # "nil" /\ ToSystemError(cErr).isNil) =>
            /\ ~qr.Ok.isNil
            /\ qr.Ok.v.Err = cErr.msg
            /\ Len(qr.Ok.v.Ok.data) = 0
        /\ ~qr.Ok.isNil => ~(Len(qr.Ok.v.Ok.data) > 0 /\ Len(qr.Ok.v.Err) > 0)

C3_Witness ==
    /\ cPhase = "built"
    /\ cErr.kind = "system"
    /\ cResponse = Bytes(<<77>>)
    /\ qr.Ok.isNil
    /\ qr.Err.v.kind = "no_such_contract"

\* C4: MarshalJSON of a QueryResult with neither Ok nor Err set gives exactly
\* {"ok":""}, the same as for QueryResult{Ok: empty}, and decoding that gives
\* empty Ok and empty Err; with exactly one of Ok and Err non-empty only that
\* branch is written.
C4_DegenerateSuccess ==
    /\ (cPhase \in {"qwired", "qdecoded"} /\ Empty(qres)) =>
        /\ qWire = EmptySuccessWire
        /\ qWire = QueryResult_MarshalJSON(QueryResult(Bytes(<<>>), <<>>))
    /\ (cPhase = "qdecoded" /\ Empty(qres)) =>
        /\ ~qBack.err
        /\ Empty(qBack.val)
    /\ (cPhase \in {"qwired", "qdecoded"} /\ Len(qres.Ok.data) > 0 /\ Len(qres.Err) = 0) =>
        Keys(qWire) = <<"ok">>
    /\ (cPhase \in {"qwired", "qdecoded"} /\ Len(qres.Ok.data) = 0 /\ Len(qres.Err) > 0) =>
        Keys(qWire) = <<"error">>

C4_Witness ==
    /\ cPhase = "qdecoded"
    /\ qres = ZeroQueryResult
    /\ qWire = EmptySuccessWire
    /\ qBack.val = QueryResult(Bytes(<<>>), <<>>)

\* C5: a non-nil responder error that is not a system error, whatever its
\* message, is still an inner error after ToQuerierResult, serialization and
\* decoding; it never comes back as an inner success.
C5_BusinessErrorSurvives ==
    (cPhase = "decoded" /\ cErr.kind = "plain") =>
        /\ ~qrBack.err
        /\ ~qrBack.val.Ok.isNil
        /\ Len(qrBack.val.Ok.v.Err) > 0
        /\ ~HasKey(Lookup(qrWire.m, "ok").m, "ok")

\* ------------------------------------------- RawRangeEntry specification
EntryInit ==
    /\ ePhase = "start"
    /\ r \in {ZeroEntry, RawRangeEntry(Bytes(<<255>>), Bytes(<<>>))}
    /\ rBefore = r
    /\ rerr = FALSE
    /\ wire = JBad
    /\ wireFrom = "none"
    /\ sent = ZeroEntry
    /\ CodecIdle
    /\ DispIdle
    /\ ScanIdle

EntryMarshal ==
    /\ ePhase = "start"
    /\ \E e \in Entries :
        /\ wire' = RawRangeEntry_MarshalJSON(e)
        /\ sent' = e
    /\ wireFrom' = "marshal"
    /\ ePhase' = "wired"
    /\ UNCHANGED <<r, rBefore, rerr>>
    /\ UNCHANGED <<codecVars, dispVars, scanVars>>

EntryReceive ==
    /\ ePhase = "start"
    /\ wire' \in ForeignWires
    /\ wireFrom' = "foreign"
    /\ ePhase' = "wired"
    /\ UNCHANGED <<r, rBefore, rerr, sent>>
    /\ UNCHANGED <<codecVars, dispVars, scanVars>>

EntryUnmarshal ==
    /\ ePhase = "wired"
    /\ LET got == RawRangeEntry_UnmarshalJSON(r, wire)
       IN  /\ r' = got.r
           /\ rerr' = got.err
    /\ rBefore' = r
    /\ ePhase' = "done"
    /\ UNCHANGED <<wire, wireFrom, sent>>
    /\ UNCHANGED <<codecVars, dispVars, scanVars>>

EntryNext == EntryMarshal \/ EntryReceive \/ EntryUnmarshal
SpecEntry == EntryInit /\ [][EntryNext]_vars

\* C7: MarshalJSON emits a two-element array, key first and value second;
\* UnmarshalJSON of that output restores the same Key and Value without error;
\* UnmarshalJSON of an array of any other length returns an error and leaves
\* the entry as it was.
C7_RoundTrip ==
    /\ wireFrom = "marshal" =>
        /\ wire.t = "arr"
        /\ Len(wire.m) = 2
        /\ UnmarshalBytes(wire.m[1].v, NilBytes) = [err |-> FALSE, val |-> sent.Key]
        /\ UnmarshalBytes(wire.m[2].v, NilBytes) = [err |-> FALSE, val |-> sent.Value]
    /\ (ePhase = "done" /\ wireFrom = "marshal") => (~rerr /\ r = sent)
    /\ (ePhase = "done" /\ wire.t = "arr" /\ Len(wire.m) # 2) => (rerr /\ r = rBefore)

C7_Witness ==
    /\ ePhase = "done"
    /\ wireFrom = "marshal"
    /\ r = sent
    /\ r # rBefore
    /\ sent.Key = Bytes(<<255, 77>>)
    /\ sent.Value = Bytes(<<>>)

\* ------------------------------------------------ dispatcher specification
DispInit == DispIdle /\ CodecIdle /\ EntryIdle /\ ScanIdle

\* The caller hands RustQuery its arguments.
Call ==
    /\ phase = "idle"
    /\ binRequest' \in Requests
    /\ gasLimit' \in 0..MaxGasLimit
    /\ phase' = "called"
    /\ UNCHANGED <<result, calls, gas>>
    /\ UNCHANGED <<entryVars, codecVars, scanVars>>

\* RustQuery runs to its return; the responder's answer is its to choose.
Dispatch ==
    /\ phase = "called"
    /\ \E reply \in Replies(gasLimit) :
        LET out == RustQuery(binRequest, gasLimit, reply)
        IN  /\ GasConsumed(gas, out.calls) <= MaxGas
            /\ result' = out.result
            /\ calls' = out.calls
            /\ gas' = GasConsumed(gas, out.calls)
    /\ phase' = "returned"
    /\ UNCHANGED <<binRequest, gasLimit>>
    /\ UNCHANGED <<entryVars, codecVars, scanVars>>

\* The caller takes the result; the querier lives on.
Return ==
    /\ phase = "returned"
    /\ phase' = "idle"
    /\ binRequest' = NoRequest
    /\ gasLimit' = 0
    /\ result' = ZeroQuerierResult
    /\ calls' = <<>>
    /\ UNCHANGED gas
    /\ UNCHANGED <<entryVars, codecVars, scanVars>>

Next == Call \/ Dispatch \/ Return
Spec == DispInit /\ [][Next]_vars

DecodeFails == UnmarshalQueryRequest(binRequest).err # ""
IsInvalidRequestEcho ==
    /\ result.Ok.isNil
    /\ ~result.Err.isNil
    /\ result.Err.v.kind = "invalid_request"
    /\ result.Err.v.request = binRequest

\* C1: when the request bytes fail to decode, RustQuery returns only an outer
\* error, SystemError.InvalidRequest, carrying exactly the input bytes, and
\* querier.Query is not invoked; when they decode, the result is what
\* ToQuerierResult makes of the responder's answer, so RustQuery itself builds
\* an InvalidRequest on the decode-failure path alone.
C1_DecodeFailure ==
    /\ (phase = "returned" /\ DecodeFails) =>
        /\ IsInvalidRequestEcho
        /\ calls = <<>>
    /\ (phase = "returned" /\ ~DecodeFails) =>
        /\ Len(calls) = 1
        /\ result = ToQuerierResult(calls[1].reply.bz, calls[1].reply.err)

C1_Witness ==
    /\ phase = "returned"
    /\ binRequest = BadText(<<123>>)
    /\ IsInvalidRequestEcho
    /\ calls = <<>>

NamesNoVariant ==
    /\ binRequest.t = "obj"
    /\ Len(binRequest.m) > 0
    /\ \A i \in 1..Len(binRequest.m) :
        \A n \in 1..Len(Schema("QueryRequest")) :
            binRequest.m[i].k # Schema("QueryRequest")[n].k

\* C2: well-formed JSON that names no QueryRequest variant, such as
\* {"unknown_field": 1}, is answered with SystemError.InvalidRequest echoing
\* the original bytes, and is not routed to querier.Query.
C2_UnknownFieldRejected ==
    (phase = "returned" /\ NamesNoVariant) =>
        /\ IsInvalidRequestEcho
        /\ calls = <<>>

OneOfN(v, ty) ==
    /\ Cardinality(PopulatedBranches(v)) = 1
    /\ \A n \in PopulatedBranches(v) :
        Schema(ty)[n].ty \in UnionTypes =>
            Cardinality(PopulatedBranches(v.m[n].v)) = 1

\* C6: every QueryRequest handed to querier.Query has exactly one populated
\* category branch and, inside a category, exactly one populated operation
\* branch; input with zero or several populated branches is rejected.
C6_OneOfN ==
    phase = "returned" =>
        \A i \in 1..Len(calls) : OneOfN(calls[i].request, "QueryRequest")

\* C9: GasConsumed() never decreases, and over one dispatch it grows by
\* exactly the gas the responder consumed in the one invocation RustQuery
\* made; a dispatch that fails to decode leaves it unchanged.
C9_GasBracketing ==
    [][/\ gas' >= gas
       /\ (phase = "called" /\ phase' = "returned") =>
            /\ DecodeFails => gas' = gas
            /\ ~DecodeFails =>
                /\ Len(calls') = 1
                /\ gas' - gas = calls'[1].reply.used]_vars

C9_Witness ==
    /\ phase = "returned"
    /\ Len(calls) = 1
    /\ calls[1].reply.used = MaxGasLimit
    /\ gas = MaxGas

\* C10: each RustQuery call invokes querier.Query at most once: exactly once,
\* with the decoded request and the caller's gasLimit unchanged, when decoding
\* succeeds, and not at all when it fails; whatever the responder returns,
\* one QuerierResult with one branch populated comes back.
C10_SingleInvocation ==
    phase = "returned" =>
        /\ Len(calls) <= 1
        /\ (Len(calls) = 1) <=> ~DecodeFails
        /\ \A i \in 1..Len(calls) :
            /\ calls[i].gasLimit = gasLimit
            /\ calls[i].request = UnmarshalQueryRequest(binRequest).val
        /\ result.Ok.isNil # result.Err.isNil

C10_Witness ==
    /\ phase = "returned"
    /\ Len(calls) = 1
    /\ calls[1].gasLimit = MaxGasLimit
    /\ calls[1].reply.err.kind = "system"
    /\ ~result.Err.isNil
    /\ Cardinality(PopulatedBranches(calls[1].request)) = 1

\* ------------------------------------------------ range scan specification
ScanInit ==
    /\ sPhase = "start"
    /\ store \in SUBSET ScanKeys
    /\ query = ZeroRawRangeQuery
    /\ response = RawRangeResponse(<<>>, NilBytes)
    /\ DispIdle
    /\ CodecIdle
    /\ EntryIdle

ScanAsk ==
    /\ sPhase = "start"
    /\ \E start \in ScanBounds, end \in ScanBounds, limit \in 0..MaxLimit, order \in Orders :
        query' = RawRangeQuery(start, end, limit, order)
    /\ sPhase' = "asked"
    /\ UNCHANGED <<store, response>>
    /\ UNCHANGED <<entryVars, codecVars, dispVars>>

ScanAnswer ==
    /\ sPhase = "asked"
    /\ response' = Scan(store, query)
    /\ sPhase' = "answered"
    /\ UNCHANGED <<store, query>>
    /\ UNCHANGED <<entryVars, codecVars, dispVars>>

ScanNext == ScanAsk \/ ScanAnswer
SpecScan == ScanInit /\ [][ScanNext]_vars

\* Both bounds are given and start is lexicographically at or after end.
NotStrictlyBefore == Present(query.End) /\ ~LexLess(query.Start.data, query.End.data)

\* C8: a RawRangeQuery whose start is not strictly before its end is answered
\* with no entries and no next_key, in ascending and in descending order and
\* for every limit.
C8_EmptyRange ==
    (sPhase = "answered" /\ NotStrictlyBefore) =>
        /\ response.Data = <<>>
        /\ response.NextKey = NilBytes

C8_Witness ==
    /\ sPhase = "answered"
    /\ store = ScanKeys
    /\ query.Start = Bytes(<<2>>)
    /\ query.End = Bytes(<<1, 1>>)
    /\ query.Order = "descending"
    /\ query.Limit = MaxLimit
    /\ response.Data = <<>>

====
